---------------------------- MODULE Spec2Model ----------------------------
(***************************************************************************)
(* A model of cis_pdf_to_excel_converter.py: the extractor                 *)
(* (CISBenchmarkExtractor), the report builder (ExcelWorkbookGenerator)    *)
(* and main.                                                               *)
(*                                                                         *)
(* Text is modelled character by character: a Python str is a sequence of  *)
(* characters, each a string, so that the regular expressions of the       *)
(* source are computed on the same characters the code sees.  Positions are*)
(* 1-based here (Python's are 0-based); page indexes stay 0-based as in    *)
(* the code, page p being pages[p + 1].                                    *)
(***************************************************************************)
EXTENDS Integers, Sequences, FiniteSets, TLC

VARIABLES
    pages,               \* reader.pages: the text extract_text() gives for each page
    pc,                  \* the position of main in its pipeline
    benchmark_title,     \* extractor.benchmark_title
    benchmark_version,   \* extractor.benchmark_version
    start_page,          \* what find_recommendations_start_page returned (-1: not called yet)
    recommendations,     \* extractor.recommendations
    sections,            \* the dict of organize_by_section, in insertion order
    index_rows,          \* the section rows appended to the index sheet
    sheets,              \* the section sheets of the workbook, in creation order
    written,             \* whether wb.save wrote the output file
    exit_code,           \* the exit status of the process (-1 while it runs)
    steps                \* the pipeline steps completed so far, in order

vars == <<pages, pc, benchmark_title, benchmark_version, start_page, recommendations,
          sections, index_rows, sheets, written, exit_code, steps>>

----------------------------------------------------------------------------
(* Characters and strings *)

\* A character of a text is a string: the character itself when it is one a string
\* of this module can hold (code points up to U+00FF), otherwise its code point
\* written "U+" and four to six hexadecimal digits, as "U+2003" for EM SPACE.

\* the decimal digits of Unicode (category Nd), which \d of a str pattern matches
\* and int() reads: each ten entries are the digits 0 to 9 of one script, ASCII first
DigitChars ==
    <<"0", "1", "2", "3", "4", "5", "6", "7", "8", "9",
      "U+0660", "U+0661", "U+0662", "U+0663", "U+0664", "U+0665", "U+0666", "U+0667", "U+0668", "U+0669",
      "U+06F0", "U+06F1", "U+06F2", "U+06F3", "U+06F4", "U+06F5", "U+06F6", "U+06F7", "U+06F8", "U+06F9",
      "U+07C0", "U+07C1", "U+07C2", "U+07C3", "U+07C4", "U+07C5", "U+07C6", "U+07C7", "U+07C8", "U+07C9",
      "U+0966", "U+0967", "U+0968", "U+0969", "U+096A", "U+096B", "U+096C", "U+096D", "U+096E", "U+096F",
      "U+09E6", "U+09E7", "U+09E8", "U+09E9", "U+09EA", "U+09EB", "U+09EC", "U+09ED", "U+09EE", "U+09EF",
      "U+0A66", "U+0A67", "U+0A68", "U+0A69", "U+0A6A", "U+0A6B", "U+0A6C", "U+0A6D", "U+0A6E", "U+0A6F",
      "U+0AE6", "U+0AE7", "U+0AE8", "U+0AE9", "U+0AEA", "U+0AEB", "U+0AEC", "U+0AED", "U+0AEE", "U+0AEF",
      "U+0B66", "U+0B67", "U+0B68", "U+0B69", "U+0B6A", "U+0B6B", "U+0B6C", "U+0B6D", "U+0B6E", "U+0B6F",
      "U+0BE6", "U+0BE7", "U+0BE8", "U+0BE9", "U+0BEA", "U+0BEB", "U+0BEC", "U+0BED", "U+0BEE", "U+0BEF",
      "U+0C66", "U+0C67", "U+0C68", "U+0C69", "U+0C6A", "U+0C6B", "U+0C6C", "U+0C6D", "U+0C6E", "U+0C6F",
      "U+0CE6", "U+0CE7", "U+0CE8", "U+0CE9", "U+0CEA", "U+0CEB", "U+0CEC", "U+0CED", "U+0CEE", "U+0CEF",
      "U+0D66", "U+0D67", "U+0D68", "U+0D69", "U+0D6A", "U+0D6B", "U+0D6C", "U+0D6D", "U+0D6E", "U+0D6F",
      "U+0DE6", "U+0DE7", "U+0DE8", "U+0DE9", "U+0DEA", "U+0DEB", "U+0DEC", "U+0DED", "U+0DEE", "U+0DEF",
      "U+0E50", "U+0E51", "U+0E52", "U+0E53", "U+0E54", "U+0E55", "U+0E56", "U+0E57", "U+0E58", "U+0E59",
      "U+0ED0", "U+0ED1", "U+0ED2", "U+0ED3", "U+0ED4", "U+0ED5", "U+0ED6", "U+0ED7", "U+0ED8", "U+0ED9",
      "U+0F20", "U+0F21", "U+0F22", "U+0F23", "U+0F24", "U+0F25", "U+0F26", "U+0F27", "U+0F28", "U+0F29",
      "U+1040", "U+1041", "U+1042", "U+1043", "U+1044", "U+1045", "U+1046", "U+1047", "U+1048", "U+1049",
      "U+1090", "U+1091", "U+1092", "U+1093", "U+1094", "U+1095", "U+1096", "U+1097", "U+1098", "U+1099",
      "U+17E0", "U+17E1", "U+17E2", "U+17E3", "U+17E4", "U+17E5", "U+17E6", "U+17E7", "U+17E8", "U+17E9",
      "U+1810", "U+1811", "U+1812", "U+1813", "U+1814", "U+1815", "U+1816", "U+1817", "U+1818", "U+1819",
      "U+1946", "U+1947", "U+1948", "U+1949", "U+194A", "U+194B", "U+194C", "U+194D", "U+194E", "U+194F",
      "U+19D0", "U+19D1", "U+19D2", "U+19D3", "U+19D4", "U+19D5", "U+19D6", "U+19D7", "U+19D8", "U+19D9",
      "U+1A80", "U+1A81", "U+1A82", "U+1A83", "U+1A84", "U+1A85", "U+1A86", "U+1A87", "U+1A88", "U+1A89",
      "U+1A90", "U+1A91", "U+1A92", "U+1A93", "U+1A94", "U+1A95", "U+1A96", "U+1A97", "U+1A98", "U+1A99",
      "U+1B50", "U+1B51", "U+1B52", "U+1B53", "U+1B54", "U+1B55", "U+1B56", "U+1B57", "U+1B58", "U+1B59",
      "U+1BB0", "U+1BB1", "U+1BB2", "U+1BB3", "U+1BB4", "U+1BB5", "U+1BB6", "U+1BB7", "U+1BB8", "U+1BB9",
      "U+1C40", "U+1C41", "U+1C42", "U+1C43", "U+1C44", "U+1C45", "U+1C46", "U+1C47", "U+1C48", "U+1C49",
      "U+1C50", "U+1C51", "U+1C52", "U+1C53", "U+1C54", "U+1C55", "U+1C56", "U+1C57", "U+1C58", "U+1C59",
      "U+A620", "U+A621", "U+A622", "U+A623", "U+A624", "U+A625", "U+A626", "U+A627", "U+A628", "U+A629",
      "U+A8D0", "U+A8D1", "U+A8D2", "U+A8D3", "U+A8D4", "U+A8D5", "U+A8D6", "U+A8D7", "U+A8D8", "U+A8D9",
      "U+A900", "U+A901", "U+A902", "U+A903", "U+A904", "U+A905", "U+A906", "U+A907", "U+A908", "U+A909",
      "U+A9D0", "U+A9D1", "U+A9D2", "U+A9D3", "U+A9D4", "U+A9D5", "U+A9D6", "U+A9D7", "U+A9D8", "U+A9D9",
      "U+A9F0", "U+A9F1", "U+A9F2", "U+A9F3", "U+A9F4", "U+A9F5", "U+A9F6", "U+A9F7", "U+A9F8", "U+A9F9",
      "U+AA50", "U+AA51", "U+AA52", "U+AA53", "U+AA54", "U+AA55", "U+AA56", "U+AA57", "U+AA58", "U+AA59",
      "U+ABF0", "U+ABF1", "U+ABF2", "U+ABF3", "U+ABF4", "U+ABF5", "U+ABF6", "U+ABF7", "U+ABF8", "U+ABF9",
      "U+FF10", "U+FF11", "U+FF12", "U+FF13", "U+FF14", "U+FF15", "U+FF16", "U+FF17", "U+FF18", "U+FF19",
      "U+104A0", "U+104A1", "U+104A2", "U+104A3", "U+104A4", "U+104A5", "U+104A6", "U+104A7", "U+104A8", "U+104A9",
      "U+10D30", "U+10D31", "U+10D32", "U+10D33", "U+10D34", "U+10D35", "U+10D36", "U+10D37", "U+10D38", "U+10D39",
      "U+11066", "U+11067", "U+11068", "U+11069", "U+1106A", "U+1106B", "U+1106C", "U+1106D", "U+1106E", "U+1106F",
      "U+110F0", "U+110F1", "U+110F2", "U+110F3", "U+110F4", "U+110F5", "U+110F6", "U+110F7", "U+110F8", "U+110F9",
      "U+11136", "U+11137", "U+11138", "U+11139", "U+1113A", "U+1113B", "U+1113C", "U+1113D", "U+1113E", "U+1113F",
      "U+111D0", "U+111D1", "U+111D2", "U+111D3", "U+111D4", "U+111D5", "U+111D6", "U+111D7", "U+111D8", "U+111D9",
      "U+112F0", "U+112F1", "U+112F2", "U+112F3", "U+112F4", "U+112F5", "U+112F6", "U+112F7", "U+112F8", "U+112F9",
      "U+11450", "U+11451", "U+11452", "U+11453", "U+11454", "U+11455", "U+11456", "U+11457", "U+11458", "U+11459",
      "U+114D0", "U+114D1", "U+114D2", "U+114D3", "U+114D4", "U+114D5", "U+114D6", "U+114D7", "U+114D8", "U+114D9",
      "U+11650", "U+11651", "U+11652", "U+11653", "U+11654", "U+11655", "U+11656", "U+11657", "U+11658", "U+11659",
      "U+116C0", "U+116C1", "U+116C2", "U+116C3", "U+116C4", "U+116C5", "U+116C6", "U+116C7", "U+116C8", "U+116C9",
      "U+11730", "U+11731", "U+11732", "U+11733", "U+11734", "U+11735", "U+11736", "U+11737", "U+11738", "U+11739",
      "U+118E0", "U+118E1", "U+118E2", "U+118E3", "U+118E4", "U+118E5", "U+118E6", "U+118E7", "U+118E8", "U+118E9",
      "U+11950", "U+11951", "U+11952", "U+11953", "U+11954", "U+11955", "U+11956", "U+11957", "U+11958", "U+11959",
      "U+11C50", "U+11C51", "U+11C52", "U+11C53", "U+11C54", "U+11C55", "U+11C56", "U+11C57", "U+11C58", "U+11C59",
      "U+11D50", "U+11D51", "U+11D52", "U+11D53", "U+11D54", "U+11D55", "U+11D56", "U+11D57", "U+11D58", "U+11D59",
      "U+11DA0", "U+11DA1", "U+11DA2", "U+11DA3", "U+11DA4", "U+11DA5", "U+11DA6", "U+11DA7", "U+11DA8", "U+11DA9",
      "U+16A60", "U+16A61", "U+16A62", "U+16A63", "U+16A64", "U+16A65", "U+16A66", "U+16A67", "U+16A68", "U+16A69",
      "U+16AC0", "U+16AC1", "U+16AC2", "U+16AC3", "U+16AC4", "U+16AC5", "U+16AC6", "U+16AC7", "U+16AC8", "U+16AC9",
      "U+16B50", "U+16B51", "U+16B52", "U+16B53", "U+16B54", "U+16B55", "U+16B56", "U+16B57", "U+16B58", "U+16B59",
      "U+1D7CE", "U+1D7CF", "U+1D7D0", "U+1D7D1", "U+1D7D2", "U+1D7D3", "U+1D7D4", "U+1D7D5", "U+1D7D6", "U+1D7D7",
      "U+1D7D8", "U+1D7D9", "U+1D7DA", "U+1D7DB", "U+1D7DC", "U+1D7DD", "U+1D7DE", "U+1D7DF", "U+1D7E0", "U+1D7E1",
      "U+1D7E2", "U+1D7E3", "U+1D7E4", "U+1D7E5", "U+1D7E6", "U+1D7E7", "U+1D7E8", "U+1D7E9", "U+1D7EA", "U+1D7EB",
      "U+1D7EC", "U+1D7ED", "U+1D7EE", "U+1D7EF", "U+1D7F0", "U+1D7F1", "U+1D7F2", "U+1D7F3", "U+1D7F4", "U+1D7F5",
      "U+1D7F6", "U+1D7F7", "U+1D7F8", "U+1D7F9", "U+1D7FA", "U+1D7FB", "U+1D7FC", "U+1D7FD", "U+1D7FE", "U+1D7FF",
      "U+1E140", "U+1E141", "U+1E142", "U+1E143", "U+1E144", "U+1E145", "U+1E146", "U+1E147", "U+1E148", "U+1E149",
      "U+1E2F0", "U+1E2F1", "U+1E2F2", "U+1E2F3", "U+1E2F4", "U+1E2F5", "U+1E2F6", "U+1E2F7", "U+1E2F8", "U+1E2F9",
      "U+1E950", "U+1E951", "U+1E952", "U+1E953", "U+1E954", "U+1E955", "U+1E956", "U+1E957", "U+1E958", "U+1E959",
      "U+1FBF0", "U+1FBF1", "U+1FBF2", "U+1FBF3", "U+1FBF4", "U+1FBF5", "U+1FBF6", "U+1FBF7", "U+1FBF8", "U+1FBF9">>

Digits == {DigitChars[i] : i \in 1..Len(DigitChars)}

UpperSeq == <<"A", "B", "C", "D", "E", "F", "G", "H", "I", "J", "K", "L", "M",
              "N", "O", "P", "Q", "R", "S", "T", "U", "V", "W", "X", "Y", "Z">>

LowerSeq == <<"a", "b", "c", "d", "e", "f", "g", "h", "i", "j", "k", "l", "m",
              "n", "o", "p", "q", "r", "s", "t", "u", "v", "w", "x", "y", "z">>

\* the whitespace of Unicode, which \s of a str pattern matches and str.strip()
\* removes.  Those up to U+00FF are written as themselves: U+0009 to U+000D,
\* U+001C to U+001F, U+0020, U+0085 and U+00A0.
SpaceChars ==
    {"\t", "\n", "", "\f", "\r", "", "", "", "", " ", "", " ", "U+1680",
     "U+2000", "U+2001", "U+2002", "U+2003", "U+2004", "U+2005", "U+2006", "U+2007",
     "U+2008", "U+2009", "U+200A", "U+2028", "U+2029", "U+202F", "U+205F", "U+3000"}

\* \d
IsDigit(c) == c \in Digits

\* [A-Z]
IsUpper(c) == \E i \in 1..26 : UpperSeq[i] = c

\* \s, and the characters str.strip() removes
IsSpace(c) == c \in SpaceChars

\* the letter re.IGNORECASE compares a character as: an ASCII capital as its small
\* letter, and the four characters that match an ASCII letter without being one
\* (U+0130 and U+0131 match i, U+017F matches s, U+212A matches k)
Lower(c) ==
    IF IsUpper(c) THEN LowerSeq[CHOOSE i \in 1..26 : UpperSeq[i] = c]
    ELSE IF c \in {"U+0130", "U+0131"} THEN "i"
    ELSE IF c = "U+017F" THEN "s"
    ELSE IF c = "U+212A" THEN "k"
    ELSE c

Min(S) == CHOOSE m \in S : \A o \in S : m <= o

Max(S) == CHOOSE m \in S : \A o \in S : m >= o

\* s[:n]
Take(s, n) == SubSeq(s, 1, IF Len(s) < n THEN Len(s) ELSE n)

\* s[i-1:j] of Python, empty when the slice is
Slice(s, i, j) == IF i > j THEN <<>> ELSE SubSeq(s, i, IF j > Len(s) THEN Len(s) ELSE j)

\* whether the literal lit occurs in s at position i
MatchAt(s, i, lit) ==
    /\ i >= 1
    /\ i + Len(lit) - 1 <= Len(s)
    /\ \A k \in 1..Len(lit) : s[i + k - 1] = lit[k]

\* the same, letters compared regardless of case (re.IGNORECASE)
MatchAtNoCase(s, i, lit) ==
    /\ i >= 1
    /\ i + Len(lit) - 1 <= Len(s)
    /\ \A k \in 1..Len(lit) : Lower(s[i + k - 1]) = Lower(lit[k])

\* the first position at or after i that holds no whitespace (Len(s) + 1: none)
RECURSIVE SkipSpace(_, _)
SkipSpace(s, i) ==
    IF i <= Len(s) /\ IsSpace(s[i]) THEN SkipSpace(s, i + 1) ELSE i

\* the positions a to b of s hold digits
AllDigits(s, a, b) == \A k \in a..b : k <= Len(s) /\ IsDigit(s[k])

\* the first position at or after i that holds no digit.  A number may have
\* thousands of digits, so a run of digits is passed 64 at a time as long as it has
\* that many, and one at a time after that.
RECURSIVE SkipDigits(_, _)
SkipDigits(s, i) ==
    IF ~AllDigits(s, i, i) THEN i
    ELSE SkipDigits(s, IF AllDigits(s, i, i + 63) THEN i + 64 ELSE i + 1)

\* the last position at or before j that holds no whitespace (0: none)
RECURSIVE SkipSpaceBack(_, _)
SkipSpaceBack(s, j) ==
    IF j >= 1 /\ IsSpace(s[j]) THEN SkipSpaceBack(s, j - 1) ELSE j

\* str.strip()
Strip(s) ==
    LET i == SkipSpace(s, 1)
        j == SkipSpaceBack(s, Len(s))
    IN  IF i > j THEN <<>> ELSE SubSeq(s, i, j)

\* the number of '\n' in s plus one: len(s.split('\n'))
LineCount(s) == Cardinality({i \in 1..Len(s) : s[i] = "\n"}) + 1

----------------------------------------------------------------------------
(* The literals of the source *)

\* the labels of the fields (lines 123-147)
LabelDescription ==
    <<"D", "e", "s", "c", "r", "i", "p", "t", "i", "o", "n", ":">>

LabelRationale ==
    <<"R", "a", "t", "i", "o", "n", "a", "l", "e", ":">>

LabelImpact ==
    <<"I", "m", "p", "a", "c", "t", ":">>

LabelAudit ==
    <<"A", "u", "d", "i", "t", ":">>

LabelRemediation ==
    <<"R", "e", "m", "e", "d", "i", "a", "t", "i", "o", "n", ":">>

LabelDefaultValue ==
    <<"D", "e", "f", "a", "u", "l", "t", " ", "V", "a", "l", "u", "e", ":">>

LabelReferences ==
    <<"R", "e", "f", "e", "r", "e", "n", "c", "e", "s", ":">>

LabelCISControls ==
    <<"C", "I", "S", " ", "C", "o", "n", "t", "r", "o", "l", "s", ":">>

LabelAdditionalInformation ==
    <<"A", "d", "d", "i", "t", "i", "o", "n", "a", "l", " ", "I", "n", "f", "o", "r", "m", "a",
      "t", "i", "o", "n", ":">>

\* the literals of the profile pattern and its default
LitLevel ==
    <<"L", "e", "v", "e", "l", " ">>

LitProfileApplicability ==
    <<"P", "r", "o", "f", "i", "l", "e", " ", "A", "p", "p", "l", "i", "c", "a", "b", "i", "l",
      "i", "t", "y">>

LitLevel1 ==
    <<"L", "e", "v", "e", "l", " ", "1">>

LitLevel2 ==
    <<"L", "e", "v", "e", "l", " ", "2">>

\* the status tokens of the header pattern
LitAutomated ==
    <<"A", "u", "t", "o", "m", "a", "t", "e", "d">>

LitManual ==
    <<"M", "a", "n", "u", "a", "l">>

LitScored ==
    <<"S", "c", "o", "r", "e", "d">>

LitNotScored ==
    <<"N", "o", "t", " ", "S", "c", "o", "r", "e", "d">>

\* the literals of the metadata patterns and of the title format string
LitCIS ==
    <<"C", "I", "S">>

LitBenchmark ==
    <<"B", "e", "n", "c", "h", "m", "a", "r", "k">>

\* the literals of the sheet names
LitSection ==
    <<"S", "e", "c", "t", "i", "o", "n", " ">>

LitDotSpace ==
    <<".", " ">>

\* the paragraph heads of the Description & Impact cell
LitRationaleHead ==
    <<"\n", "\n", "R", "A", "T", "I", "O", "N", "A", "L", "E", ":", "\n">>

LitImpactHead ==
    <<"\n", "\n", "I", "M", "P", "A", "C", "T", ":", "\n">>

----------------------------------------------------------------------------
(* CISBenchmarkExtractor: the patterns of extract_recommendations *)

\* the size of the content window, text[start_pos:start_pos+3500]
WindowSize == 3500

\* the caps of the fields in the record _extract_recommendation_details returns
MaxDescription == 1500

MaxRationale == 1000

MaxImpact == 1000

MaxAudit == 2500

MaxRemediation == 1500

MaxDefaultValue == 500

MaxReferences == 800

\* range(min(30, len(self.reader.pages)))
ScanPages == 30

\* return 15  # Default fallback
DefaultStartPage == 15

\* '\n' + label, the form every terminator of a field pattern has
Nl(lit) == <<"\n">> \o lit

\* (Automated|Manual|Scored|Not Scored), in the order of the alternation
StatusTokens == <<LitAutomated, LitManual, LitScored, LitNotScored>>

\* (?:\.\d+)* from position e, greedy: the position after it
RECURSIVE DottedEnd(_, _)
DottedEnd(t, e) ==
    IF e + 1 <= Len(t) /\ t[e] = "." /\ IsDigit(t[e + 1])
    THEN DottedEnd(t, SkipDigits(t, e + 1))
    ELSE e

\* \d+(?:\.\d+)+ from position d: the position after it, 0 when it does not match.
\* The pattern goes on with \s+, so only the longest match can be part of a header.
NumEnd(t, d) ==
    LET e1 == SkipDigits(t, d)
    IN  IF e1 = d THEN 0
        ELSE LET e2 == DottedEnd(t, e1) IN IF e2 = e1 THEN 0 ELSE e2

\* \s*\((Automated|Manual|Scored|Not Scored)\) from position i: the number of the
\* status token it matches, 0 when it does not match
StatusAt(t, i) ==
    LET p == SkipSpace(t, i)
    IN  IF p <= Len(t) /\ t[p] = "("
        THEN LET S == {k \in 1..Len(StatusTokens) :
                          /\ MatchAt(t, p + 1, StatusTokens[k])
                          /\ p + 1 + Len(StatusTokens[k]) <= Len(t)
                          /\ t[p + 1 + Len(StatusTokens[k])] = ")"}
             IN  IF S = {} THEN 0 ELSE Min(S)
        ELSE 0

NoMatch == [ok |-> FALSE]

\* the first position after a that holds '\n' (Len(t) + 1: none)
RECURSIVE LineEnd(_, _)
LineEnd(t, a) == IF a <= Len(t) /\ t[a] # "\n" THEN LineEnd(t, a + 1) ELSE a

\* (\d+(?:\.\d+)+)\s+([A-Z][^\n]+?)\s*\((Automated|Manual|Scored|Not Scored)\) with
\* the number at position d; the match began at position s.  The title is lazy: it
\* ends at the first place from which the status part matches; title is
\* match.group(2).strip(), end the position of the closing parenthesis.
HeaderBody(t, s, d) ==
    LET n == NumEnd(t, d)
    IN  IF n = 0 THEN NoMatch
        ELSE
          LET a == SkipSpace(t, n)
          IN  IF a = n \/ a > Len(t) \/ ~IsUpper(t[a]) THEN NoMatch
              ELSE
                LET E == {e \in (a + 1)..(LineEnd(t, a + 1) - 1) : StatusAt(t, e + 1) # 0}
                IN  IF E = {} THEN NoMatch
                    ELSE
                      LET e == Min(E)
                          k == StatusAt(t, e + 1)
                          p == SkipSpace(t, e + 1)
                      IN  [ok |-> TRUE,
                           start |-> s,
                           num |-> SubSeq(t, d, n - 1),
                           title |-> Strip(SubSeq(t, a, e)),
                           status |-> StatusTokens[k],
                           end |-> p + 1 + Len(StatusTokens[k])]

\* the header pattern tried at position s: (?:^|\n) is the start of the text (no
\* re.MULTILINE) or a '\n', in that order
HeaderAt(t, s) ==
    IF s = 1 /\ HeaderBody(t, s, s).ok THEN HeaderBody(t, s, s)
    ELSE IF s <= Len(t) /\ t[s] = "\n" THEN HeaderBody(t, s, s + 1)
    ELSE NoMatch

\* re.finditer(pattern, text): the matches from left to right, each search starting
\* where the match before ended
RECURSIVE HeaderMatchesFrom(_, _)
HeaderMatchesFrom(t, from) ==
    LET S == {s \in from..Len(t) : HeaderAt(t, s).ok}
    IN  IF S = {} THEN <<>>
        ELSE LET m == HeaderAt(t, Min(S))
             IN  <<m>> \o HeaderMatchesFrom(t, m.end + 1)

HeaderMatches(t) == HeaderMatchesFrom(t, 1)

\* text[start_pos:start_pos+3500] with start_pos = match.end()
Window(t, m) == Slice(t, m.end + 1, m.end + WindowSize)

----------------------------------------------------------------------------
(* _extract_recommendation_details *)

\* the positions of content at which one of the terminators begins
TermStarts(c, terms) ==
    {i \in 1..Len(c) : \E k \in 1..Len(terms) : MatchAt(c, i, terms[k])}

\* re.search(label + r'\s*(.+?)(?:' + terms + ')', content, re.DOTALL).group(1), or
\* the empty string when there is no match.  The match is at the leftmost label
\* followed, at least one character later, by a terminator; \s* is greedy and gives
\* back one character at a time; (.+?) then runs to the first terminator that
\* begins after its first character.
FieldGroup(c, label, terms) ==
    LET TS == TermStarts(c, terms)
        P  == {p \in 1..Len(c) :
                 MatchAt(c, p, label) /\ \E t \in TS : t >= p + Len(label) + 1}
    IN  IF P = {} THEN <<>>
        ELSE
          LET q == Min(P) + Len(label)
              g == SkipSpace(c, q)
              G == {k \in q..g : \E t \in TS : t >= k + 1}
              s == Max(G)
              e == Min({t \in TS : t >= s + 1})
          IN  SubSeq(c, s, e - 1)

\* a cut that keeps one character more than value[:n]
TruncateOffByOne(value, n) == Take(value, n + 1)

\* value[:n]
Truncate(value, n) == Take(value, n)

\* match.group(1).strip() if match else "", then cut to its cap
Field(c, label, terms, cap) == Truncate(Strip(FieldGroup(c, label, terms)), cap)

\* (Level \d+|Profile Applicability) at position i, <<>> when neither is there
ProfileAt(c, i) ==
    IF MatchAt(c, i, LitLevel) /\ i + Len(LitLevel) <= Len(c)
                               /\ IsDigit(c[i + Len(LitLevel)])
    THEN SubSeq(c, i, SkipDigits(c, i + Len(LitLevel)) - 1)
    ELSE IF MatchAt(c, i, LitProfileApplicability) THEN LitProfileApplicability
    ELSE <<>>

\* re.search(r'•?\s*(Level \d+|Profile Applicability)', content): group 1 of the
\* leftmost match, which is the leftmost occurrence of either form (the optional
\* bullet and whitespace before it are not part of the group); "Level 1" if none
Profile(c) ==
    LET P == {i \in 1..Len(c) : ProfileAt(c, i) # <<>>}
    IN  IF P = {} THEN LitLevel1 ELSE ProfileAt(c, Min(P))

\* the dict _extract_recommendation_details returns
Details(num, title, status, content) ==
    [num |-> num,
     title |-> title,
     profile |-> Profile(content),
     status |-> status,
     description |-> Field(content, LabelDescription,
                           <<Nl(LabelRationale), Nl(LabelImpact), Nl(LabelAudit)>>,
                           MaxDescription),
     rationale |-> Field(content, LabelRationale,
                         <<Nl(LabelImpact), Nl(LabelAudit)>>, MaxRationale),
     impact |-> Field(content, LabelImpact,
                      <<Nl(LabelAudit), Nl(LabelRemediation)>>, MaxImpact),
     audit |-> Field(content, LabelAudit,
                     <<Nl(LabelRemediation), Nl(LabelDefaultValue)>>, MaxAudit),
     remediation |-> Field(content, LabelRemediation,
                           <<Nl(LabelDefaultValue), Nl(LabelImpact), Nl(LabelReferences)>>,
                           MaxRemediation),
     default_value |-> Field(content, LabelDefaultValue,
                             <<Nl(LabelReferences), Nl(LabelCISControls)>>,
                             MaxDefaultValue),
     references |-> Field(content, LabelReferences,
                          <<Nl(LabelCISControls), Nl(LabelAdditionalInformation)>>,
                          MaxReferences)]

----------------------------------------------------------------------------
(* extract_metadata *)

\* range(min(5, len(self.reader.pages)))
MetadataPages == 5

\* \s+Benchmark (re.IGNORECASE) from position i
SpaceBenchmarkAt(t, i) ==
    LET p == SkipSpace(t, i) IN p > i /\ MatchAtNoCase(t, p, LitBenchmark)

\* the ends e of group 1 of CIS\s+(.+?)\s+Benchmark when the group begins at k: it
\* holds no '\n' (no re.DOTALL) and \s+Benchmark follows it
TitleEnds(t, k) ==
    {e \in k..(LineEnd(t, k) - 1) : SpaceBenchmarkAt(t, e + 1)}

\* the starts of group 1 when 'CIS' is at position p: \s+ takes at least one
\* whitespace character and, being greedy, as many as leave a match
TitleStarts(t, p) ==
    IF MatchAtNoCase(t, p, LitCIS)
    THEN {k \in (p + Len(LitCIS) + 1)..SkipSpace(t, p + Len(LitCIS)) : TitleEnds(t, k) # {}}
    ELSE {}

\* re.search(r'CIS\s+(.+?)\s+Benchmark', text, re.IGNORECASE): <<found, group 1>>
TitleMatch(t) ==
    LET P == {p \in 1..Len(t) : TitleStarts(t, p) # {}}
    IN  IF P = {} THEN <<FALSE, <<>>>>
        ELSE LET k == Max(TitleStarts(t, Min(P)))
             IN  <<TRUE, SubSeq(t, k, Min(TitleEnds(t, k)))>>

\* v(\d+\.\d+\.\d+) at position p: the position after it, 0 when it does not match
VersionEnd(t, p) ==
    IF p <= Len(t) /\ t[p] = "v"
    THEN LET d1 == SkipDigits(t, p + 1)
             d2 == SkipDigits(t, d1 + 1)
             d3 == SkipDigits(t, d2 + 1)
         IN  IF /\ d1 > p + 1 /\ d1 <= Len(t) /\ t[d1] = "."
                /\ d2 > d1 + 1 /\ d2 <= Len(t) /\ t[d2] = "."
                /\ d3 > d2 + 1
             THEN d3 ELSE 0
    ELSE 0

\* re.search(r'v(\d+\.\d+\.\d+)', text): <<found, group 1>>
VersionMatch(t) ==
    LET P == {p \in 1..Len(t) : VersionEnd(t, p) # 0}
    IN  IF P = {} THEN <<FALSE, <<>>>>
        ELSE <<TRUE, SubSeq(t, Min(P) + 1, VersionEnd(t, Min(P)) - 1)>>

\* the loop of extract_metadata over pages p, p+1, ..: a later page overwrites what
\* an earlier one set; meta is <<benchmark_title, benchmark_version>>
RECURSIVE MetadataFrom(_, _, _)
MetadataFrom(pgs, p, meta) ==
    IF p >= MetadataPages \/ p >= Len(pgs) THEN meta
    ELSE
      LET tm == TitleMatch(pgs[p + 1])
          vm == VersionMatch(pgs[p + 1])
      IN  MetadataFrom(pgs, p + 1,
            <<IF tm[1] THEN LitCIS \o <<" ">> \o tm[2] \o <<" ">> \o LitBenchmark
                       ELSE meta[1],
              IF vm[1] THEN <<"v">> \o vm[2] ELSE meta[2]>>)

----------------------------------------------------------------------------
(* find_recommendations_start_page and extract_recommendations *)

\* re.search(r'\n1\.1(?:\.\d+)?\s+[A-Z]', text)
HasFirstRecommendation(t) ==
    \E i \in 1..Len(t) :
        /\ t[i] = "\n"
        /\ MatchAt(t, i + 1, <<"1", ".", "1">>)
        /\ LET j == i + 4
               n == IF j + 1 <= Len(t) /\ t[j] = "." /\ IsDigit(t[j + 1])
                    THEN SkipDigits(t, j + 1) ELSE j
               a == SkipSpace(t, n)
           IN  a > n /\ a <= Len(t) /\ IsUpper(t[a])

\* find_recommendations_start_page: the first of the first 30 pages with the
\* pattern, 15 when none has it
FindStartPage(pgs) ==
    LET n == IF Len(pgs) < ScanPages THEN Len(pgs) ELSE ScanPages
        S == {p \in 0..(n - 1) : HasFirstRecommendation(pgs[p + 1])}
    IN  IF S = {} THEN DefaultStartPage ELSE Min(S)

\* the record built for match m of page p.  src is not a key of the dict: it names
\* the page and the position of the header match the record was built from, which
\* tells apart the records of two matches.
MatchRecord(t, p, m) ==
    [src |-> <<p, m.start>>] @@ Details(m.num, m.title, m.status, Window(t, m))

\* a filter that keeps every record, whatever its audit field
AcceptAll(rec) == TRUE

\* if rec and rec['audit']
Accept(rec) == rec.audit # <<>>

\* the records one page appends to self.recommendations
PageRecords(t, p) ==
    LET ms == HeaderMatches(t)
    IN  SelectSeq([i \in 1..Len(ms) |-> MatchRecord(t, p, ms[i])], Accept)

\* for page_num in range(start_page, len(self.reader.pages))
RECURSIVE ExtractPages(_, _)
ExtractPages(pgs, p) ==
    IF p >= Len(pgs) THEN <<>>
    ELSE PageRecords(pgs[p + 1], p) \o ExtractPages(pgs, p + 1)

\* the loop of _remove_duplicates from record i on
RECURSIVE UniqueFrom(_, _, _, _)
UniqueFrom(recs, i, seen, unique) ==
    IF i > Len(recs) THEN unique
    ELSE IF recs[i].num \in seen THEN UniqueFrom(recs, i + 1, seen, unique)
    ELSE UniqueFrom(recs, i + 1, seen \cup {recs[i].num}, Append(unique, recs[i]))

\* a list left as it was, duplicates included
KeepAll(recs) == recs

\* _remove_duplicates
RemoveDuplicates(recs) == UniqueFrom(recs, 1, {}, <<>>)

\* s.split('.') from position i on
RECURSIVE SplitDots(_, _)
SplitDots(s, i) ==
    LET D == {j \in i..Len(s) : s[j] = "."}
    IN  IF D = {} THEN <<Slice(s, i, Len(s))>>
        ELSE <<Slice(s, i, Min(D) - 1)>> \o SplitDots(s, Min(D) + 1)

\* the digits of every script that have the value v
DigitsOf ==
    [v \in 0..9 |-> {DigitChars[i] : i \in {j \in 1..Len(DigitChars) : (j - 1) % 10 = v}}]

\* the value int() gives a digit, of whatever script
DigitValue(c) == CHOOSE v \in 0..9 : c \in DigitsOf[v]

\* the digits of s without the leading zeros, each as its value
RECURSIVE StripZeros(_)
StripZeros(ds) == IF ds # <<>> /\ ds[1] = 0 THEN StripZeros(Tail(ds)) ELSE ds

\* sys.get_int_max_str_digits() of Python 3.11: the most digits int() converts
MaxStrDigits == 4300

\* what a call gives when it raises ValueError; a call that returns gives
\* [ok |-> TRUE, value |-> ..]
ValueError == [ok |-> FALSE]

\* int(p) for a string of digits, the only strings the header pattern lets reach
\* it.  More than 4300 digits, leading zeros counted, raise ValueError, and so does
\* the empty string.  Python's integers have no bound, and a section number may
\* exceed 32 bits, so the integer is kept as the values of its digits without the
\* leading zeros (<<>> is 0): two strings give the same integer exactly when they
\* give the same sequence.
ParseInt(s) ==
    IF s = <<>> \/ Len(s) > MaxStrDigits THEN ValueError
    ELSE [ok |-> TRUE, value |-> StripZeros([i \in 1..Len(s) |-> DigitValue(s[i])])]

\* a < b for two integers kept as digit values
IntLess(a, b) ==
    \/ Len(a) < Len(b)
    \/ /\ Len(a) = Len(b)
       /\ \E i \in 1..Len(a) :
            /\ a[i] < b[i]
            /\ \A j \in 1..(i - 1) : a[j] = b[j]

\* key=lambda x: [int(p) for p in x['num'].split('.')]: it raises when an int
\* raises
NumKey(num) ==
    LET ps == SplitDots(num, 1)
    IN  IF \E i \in 1..Len(ps) : ~ParseInt(ps[i]).ok THEN ValueError
        ELSE [ok |-> TRUE, value |-> [i \in 1..Len(ps) |-> ParseInt(ps[i]).value]]

\* ka < kb for two lists of integers, as Python compares lists
KeyLess(ka, kb) ==
    \/ /\ Len(ka) < Len(kb)
       /\ \A j \in 1..Len(ka) : ka[j] = kb[j]
    \/ \E i \in 1..Len(ka) :
         /\ i <= Len(kb)
         /\ IntLess(ka[i], kb[i])
         /\ \A j \in 1..(i - 1) : ka[j] = kb[j]

\* list.sort is stable: x goes before the first record with a greater key; the
\* key of x may raise
InsertByNum(sorted, x) ==
    IF ~NumKey(x.num).ok THEN ValueError
    ELSE LET B == {i \in 1..Len(sorted) :
                     KeyLess(NumKey(x.num).value, NumKey(sorted[i].num).value)}
         IN  [ok |-> TRUE,
              value |-> IF B = {} THEN Append(sorted, x)
                        ELSE SubSeq(sorted, 1, Min(B) - 1) \o <<x>>
                               \o SubSeq(sorted, Min(B), Len(sorted))]

\* the keys of list.sort from record i on, each record put into the sorted list
\* in its turn, or the ValueError of a key
RECURSIVE SortFrom(_, _, _)
SortFrom(recs, i, sorted) ==
    IF i > Len(recs) THEN [ok |-> TRUE, value |-> sorted]
    ELSE LET r == InsertByNum(sorted, recs[i])
         IN  IF r.ok THEN SortFrom(recs, i + 1, r.value) ELSE ValueError

\* self.recommendations.sort(key=...): the sorted list, or the ValueError of a key,
\* which leaves the list as it was
SortByNum(recs) == SortFrom(recs, 1, <<>>)

----------------------------------------------------------------------------
(* organize_by_section *)

\* rec['num'].split('.')[0]
MainSection(num) == SplitDots(num, 1)[1]

\* the dict after rec was added: a sequence of [key, recs] in insertion order
AddToSection(secs, rec) ==
    LET key == MainSection(rec.num)
        I   == {i \in 1..Len(secs) : secs[i].key = key}
    IN  IF I = {} THEN Append(secs, [key |-> key, recs |-> <<rec>>])
        ELSE [secs EXCEPT ![Min(I)].recs = Append(@, rec)]

\* organize_by_section
RECURSIVE OrganizeFrom(_, _, _)
OrganizeFrom(recs, i, secs) ==
    IF i > Len(recs) THEN secs
    ELSE OrganizeFrom(recs, i + 1, AddToSection(secs, recs[i]))

OrganizeBySection(recs) == OrganizeFrom(recs, 1, <<>>)

----------------------------------------------------------------------------
(* ExcelWorkbookGenerator *)

\* SECTION_NAMES: the name of section '1' is SECTION_NAMES[1], .. of '9' SECTION_NAMES[9]
SECTION_NAMES ==
    <<<<"I", "n", "i", "t", "i", "a", "l", " ", "S", "e", "t", "u", "p">>,
      <<"S", "y", "s", "t", "e", "m", " ", "C", "o", "n", "f", "i", "g", "u", "r", "a", "t", "i", "o", "n">>,
      <<"N", "e", "t", "w", "o", "r", "k", " ", "&", " ", "S", "e", "r", "v", "i", "c", "e", "s">>,
      <<"S", "e", "c", "u", "r", "i", "t", "y", " ", "P", "r", "o", "f", "i", "l", "e", "s">>,
      <<"A", "c", "c", "e", "s", "s", " ", "C", "o", "n", "t", "r", "o", "l">>,
      <<"A", "u", "t", "h", "e", "n", "t", "i", "c", "a", "t", "i", "o", "n">>,
      <<"L", "o", "g", "g", "i", "n", "g", " ", "&", " ", "M", "o", "n", "i", "t", "o", "r", "i", "n", "g">>,
      <<"S", "y", "s", "t", "e", "m", " ", "M", "a", "i", "n", "t", "e", "n", "a", "n", "c", "e">>,
      <<"A", "d", "d", "i", "t", "i", "o", "n", "a", "l", " ", "H", "a", "r", "d", "e", "n", "i", "n", "g">>>>

\* the literals of the title of a section sheet
LitDashSection ==
    <<" ", "-", " ", "S", "e", "c", "t", "i", "o", "n", " ">>

LitColonSpace ==
    <<":", " ">>

\* the sheet-name length of the slices [:31]
SheetNameMax == 31

\* the row height: min(max(max_lines * 14, 80), 350)
LineHeight == 14

MinRowHeight == 80

MaxRowHeight == 350

\* the keys of SECTION_NAMES
SectionKeys == <<"1", "2", "3", "4", "5", "6", "7", "8", "9">>

\* self.SECTION_NAMES.get(sec_num, f'Section {sec_num}')
SectionName(sec_num) ==
    LET I == {i \in 1..Len(SECTION_NAMES) : sec_num = <<SectionKeys[i]>>}
    IN  IF I = {} THEN LitSection \o sec_num ELSE SECTION_NAMES[Min(I)]

\* sorted(sections.keys(), key=int): sorted is stable, a key goes before the first
\* key with a greater integer; int(key) may raise
InsertKey(sorted, key) ==
    IF ~ParseInt(key).ok THEN ValueError
    ELSE LET B == {i \in 1..Len(sorted) :
                     IntLess(ParseInt(key).value, ParseInt(sorted[i]).value)}
         IN  [ok |-> TRUE,
              value |-> IF B = {} THEN Append(sorted, key)
                        ELSE SubSeq(sorted, 1, Min(B) - 1) \o <<key>>
                               \o SubSeq(sorted, Min(B), Len(sorted))]

RECURSIVE SortedKeysFrom(_, _, _)
SortedKeysFrom(secs, i, sorted) ==
    IF i > Len(secs) THEN [ok |-> TRUE, value |-> sorted]
    ELSE LET r == InsertKey(sorted, secs[i].key)
         IN  IF r.ok THEN SortedKeysFrom(secs, i + 1, r.value) ELSE ValueError

SortedKeys(secs) == SortedKeysFrom(secs, 1, <<>>)

\* sections[sec_num]
SectionRecs(secs, key) == secs[CHOOSE i \in 1..Len(secs) : secs[i].key = key].recs

\* create_index_sheet: sheet_name = f"{sec_num}. {sec_name}"[:31]
IndexSheetName(sec_num, sec_name) == Take(sec_num \o LitDotSpace \o sec_name, SheetNameMax)

\* create_section_sheet: sheet_name = f"{section_num}. {section_name}"[:31]
SectionSheetName(section_num, section_name) ==
    Take(section_num \o LitDotSpace \o section_name, SheetNameMax)

\* create_index_sheet: the rows [sec_num, sec_name, len(sec_recs), sheet_name, ''],
\* or the ValueError of sorted
IndexRows(secs) ==
    LET keys == SortedKeys(secs)
    IN  IF ~keys.ok THEN ValueError
        ELSE [ok |-> TRUE,
              value |->
                [i \in 1..Len(keys.value) |->
                    [section |-> keys.value[i],
                     name |-> SectionName(keys.value[i]),
                     controls |-> Len(SectionRecs(secs, keys.value[i])),
                     tab |-> IndexSheetName(keys.value[i], SectionName(keys.value[i]))]]]

\* _add_recommendation_row: desc_full
DescFull(rec) ==
    rec.description
      \o (IF rec.rationale # <<>> THEN LitRationaleHead \o rec.rationale ELSE <<>>)
      \o (IF rec.impact # <<>> THEN LitImpactHead \o rec.impact ELSE <<>>)

\* _add_recommendation_row: ws.row_dimensions[row].height
RowHeight(rec) ==
    LET max_lines == Max({LineCount(DescFull(rec)), LineCount(rec.audit),
                          LineCount(rec.remediation)})
        h == IF max_lines * LineHeight > MinRowHeight THEN max_lines * LineHeight
             ELSE MinRowHeight
    IN  IF h < MaxRowHeight THEN h ELSE MaxRowHeight

\* _add_recommendation_row: the row appended and its height
RecommendationRow(rec) ==
    [data |-> <<rec.num, rec.title, rec.profile, DescFull(rec), rec.audit,
                rec.remediation, rec.default_value, rec.references>>,
     height |-> RowHeight(rec)]

\* create_index_sheet: the title of the index sheet, '📑 INDEX'
LitIndexTitle == <<"U+1F4D1", " ", "I", "N", "D", "E", "X">>

\* str.lower() of a sheet title, whose letters are ASCII letters
StrLower(s) == [i \in 1..Len(s) |-> IF IsUpper(s[i]) THEN Lower(s[i]) ELSE s[i]]

\* u",".join(names)
RECURSIVE JoinNames(_)
JoinNames(names) ==
    IF names = <<>> THEN <<>>
    ELSE IF Len(names) = 1 THEN names[1]
    ELSE names[1] \o <<",">> \o JoinNames(Tail(names))

\* the count groups that are not empty of
\* re.compile(f"(?P<title>{re.escape(value)})(?P<count>\\d*),?", re.I).findall(joined),
\* for the matches at or after position p: a match is the value, letters compared
\* regardless of case, the digits after it and a comma if one follows, and the
\* search goes on after the match
RECURSIVE TitleCounts(_, _, _)
TitleCounts(joined, value, p) ==
    IF p + Len(value) - 1 > Len(joined) THEN <<>>
    ELSE IF MatchAtNoCase(joined, p, value)
    THEN LET e == SkipDigits(joined, p + Len(value))
         IN  (IF e > p + Len(value) THEN <<Slice(joined, p + Len(value), e - 1)>> ELSE <<>>)
               \o TitleCounts(joined, value,
                              IF e <= Len(joined) /\ joined[e] = "," THEN e + 1 ELSE e)
    ELSE TitleCounts(joined, value, p + 1)

\* n + 1 for an integer kept as the values of its digits
Successor(ds) ==
    LET N == {i \in 1..Len(ds) : ds[i] # 9}
    IN  IF N = {} THEN <<1>> \o [i \in 1..Len(ds) |-> 0]
        ELSE [i \in 1..Len(ds) |->
                IF i < Max(N) THEN ds[i] ELSE IF i = Max(N) THEN ds[i] + 1 ELSE 0]

\* str(n) for an integer kept as the values of its digits
IntStr(ds) == IF ds = <<>> THEN <<"0">> ELSE [i \in 1..Len(ds) |-> DigitChars[ds[i] + 1]]

\* max(counts)
Highest(counts) == CHOOSE h \in counts : \A c \in counts : ~IntLess(h, c)

\* openpyxl's avoid_duplicate_name(names, value), which the title setter of a new
\* sheet calls with the sheet names of the workbook: a title that a sheet already
\* has, letters compared regardless of case, gets the next count after the highest
\* count that follows the title among the names, 1 when there is none.  A title
\* has at most 31 characters before its count, so int() of a count never raises.
AvoidDuplicateName(names, value) ==
    IF \A i \in 1..Len(names) : StrLower(names[i]) # StrLower(value) THEN value
    ELSE LET cs == TitleCounts(JoinNames(names), value, 1)
             counts == {ParseInt(cs[i]).value : i \in 1..Len(cs)}
         IN  value \o IntStr(Successor(IF counts = {} THEN <<>> ELSE Highest(counts)))

\* create_section_sheet: the sheet self.wb.create_sheet(sheet_name) makes in a
\* workbook whose sheets have the given names, with its title cell and one row per
\* recommendation.  The sheet gets the name openpyxl gives it, which is sheet_name
\* unless a sheet has that name already; a name longer than 31 characters only
\* draws a warning, and no sheet name holds one of the characters \ * ? : / [ ]
\* for which create_sheet raises.
SectionSheet(names, title, section_num, section_name, recs) ==
    [name |-> AvoidDuplicateName(names, SectionSheetName(section_num, section_name)),
     title |-> title \o LitDashSection \o section_num \o LitColonSpace \o section_name,
     rows |-> [i \in 1..Len(recs) |-> RecommendationRow(recs[i])]]
----------------------------------------------------------------------------
(* main *)

\* the status of parser.error, which parse_args calls on a command line it rejects
UsageStatus == 2

\* the status a shell sees when KeyboardInterrupt leaves main: the interpreter ends
\* itself with SIGINT
KeyboardInterruptStatus == 130

\* the status of a process whose flush of the standard streams at exit fails
\* (standard output is buffered and goes to a pipe whose reader is gone or to a
\* full device): the interpreter replaces the status the program ended with
FlushFailedStatus == 120

\* the statuses a process has that ends with sys.exit(status), or status 0 by
\* leaving main
Ends(status) == {status, FlushFailedStatus}

\* the state in which main begins on a document with these pages
Start(pgs) ==
    /\ pages = pgs
    /\ pc = "args"
    /\ benchmark_title = <<>>
    /\ benchmark_version = <<>>
    /\ start_page = -1
    /\ recommendations = <<>>
    /\ sections = <<>>
    /\ index_rows = <<>>
    /\ sheets = <<>>
    /\ written = FALSE
    /\ exit_code = -1
    /\ steps = <<>>

\* args = parser.parse_args() took the command line, and main printed its banner
\* and entered the try block
ParseArgs ==
    /\ exit_code = -1
    /\ pc = "args"
    /\ pc' = "construct"
    /\ UNCHANGED <<pages, benchmark_title, benchmark_version, start_page, recommendations,
                   sections, index_rows, sheets, written, exit_code, steps>>

\* parse_args met --help or -h: it prints the help and ends the process with
\* status 0
PrintHelp ==
    /\ exit_code = -1
    /\ pc = "args"
    /\ exit_code' \in Ends(0)
    /\ UNCHANGED <<pages, pc, benchmark_title, benchmark_version, start_page,
                   recommendations, sections, index_rows, sheets, written, steps>>

\* parse_args rejected the command line (no input_pdf, a third positional, an
\* unknown option): parser.error ends the process with status 2
UsageError ==
    /\ exit_code = -1
    /\ pc = "args"
    /\ exit_code' \in Ends(UsageStatus)
    /\ UNCHANGED <<pages, pc, benchmark_title, benchmark_version, start_page,
                   recommendations, sections, index_rows, sheets, written, steps>>

\* a print of the banner raised before the try block (UnicodeEncodeError where the
\* output encoding has no emoji): no handler, the interpreter ends with status 1
BannerRaises ==
    /\ exit_code = -1
    /\ pc = "args"
    /\ exit_code' \in Ends(1)
    /\ UNCHANGED <<pages, pc, benchmark_title, benchmark_version, start_page,
                   recommendations, sections, index_rows, sheets, written, steps>>

\* extractor = CISBenchmarkExtractor(args.input_pdf): PdfReader read the file
Construct ==
    /\ exit_code = -1
    /\ pc = "construct"
    /\ pc' = "metadata"
    /\ steps' = Append(steps, "construct")
    /\ UNCHANGED <<pages, benchmark_title, benchmark_version, start_page, recommendations,
                   sections, index_rows, sheets, written, exit_code>>

\* PdfReader raised FileNotFoundError: except FileNotFoundError, sys.exit(1)
RaiseFileNotFound ==
    /\ exit_code = -1
    /\ pc = "construct"
    /\ exit_code' \in Ends(1)
    /\ UNCHANGED <<pages, pc, benchmark_title, benchmark_version, start_page,
                   recommendations, sections, index_rows, sheets, written, steps>>

\* the statuses a process can end with when an exception leaves a step of the try
\* block at a call: those of except Exception and sys.exit(1), or the status of the
\* interrupt when the exception is KeyboardInterrupt, which is no Exception and
\* which no handler of main catches, or when KeyboardInterrupt is raised in the
\* print of the handler.  Between two lines that call nothing that raises only
\* KeyboardInterrupt, which a signal raises at any line, ends the process.
RaisedStatus == Ends(1) \cup {KeyboardInterruptStatus}

\* a handler that ends the process with status 0 after an exception
RaiseExceptionExitZero ==
    /\ exit_code = -1
    /\ pc \in {"construct", "metadata", "extract", "index", "sheets", "saved"}
    /\ exit_code' = 0
    /\ UNCHANGED <<pages, pc, benchmark_title, benchmark_version, start_page,
                   recommendations, sections, index_rows, sheets, written, steps>>

\* a call of the step main is at raised an Exception that is no FileNotFoundError
\* before the step changed anything (the reader on a file that is no PDF,
\* extract_text of the first page it reads, Workbook, create_sheet, a print): except
\* Exception, sys.exit(1).  pc stays where main failed.  organize_by_section calls
\* nothing that raises.
RaiseException ==
    /\ exit_code = -1
    /\ pc \in {"construct", "metadata", "extract", "index", "sheets", "saved"}
    /\ exit_code' \in Ends(1)
    /\ UNCHANGED <<pages, pc, benchmark_title, benchmark_version, start_page,
                   recommendations, sections, index_rows, sheets, written, steps>>

\* KeyboardInterrupt is raised, in a call or by a signal between two lines, while
\* main parses its arguments or prints its banner, or before the step main is at
\* changed anything, or while self.wb.save writes the file: no handler of main
\* catches it
KeyboardInterrupt ==
    /\ exit_code = -1
    /\ pc # "done"
    /\ written' \in (IF pc = "save" THEN BOOLEAN ELSE {written})
    /\ exit_code' = KeyboardInterruptStatus
    /\ UNCHANGED <<pages, pc, benchmark_title, benchmark_version, start_page,
                   recommendations, sections, index_rows, sheets, steps>>

\* the prefixes of a sequence
Prefixes(s) == {SubSeq(s, 1, k) : k \in 0..Len(s)}

\* extractor.extract_metadata().  It returns after the last page it reads and its
\* print; an exception leaves it at extract_text of page k or at the print, with
\* what the pages before k set; an interrupt also leaves it between the two
\* searches of page k, with the title of page k and the version of the pages
\* before it.
ExtractMetadata ==
    /\ exit_code = -1
    /\ pc = "metadata"
    /\ \E n \in {Min({MetadataPages, Len(pages)})} :
       \E k \in 0..n :
       \E t \in {k, Min({k + 1, n})} :
       \E meta \in {MetadataFrom(Take(pages, k), 0, <<benchmark_title, benchmark_version>>)} :
       \E title \in {MetadataFrom(Take(pages, t), 0,
                                  <<benchmark_title, benchmark_version>>)[1]} :
          /\ benchmark_title' = title
          /\ benchmark_version' = meta[2]
          /\ \/ /\ k = n
                /\ pc' = "extract"
                /\ steps' = Append(steps, "metadata")
                /\ UNCHANGED exit_code
             \/ /\ exit_code' \in (IF t = k THEN RaisedStatus ELSE {KeyboardInterruptStatus})
                /\ UNCHANGED <<pc, steps>>
    /\ UNCHANGED <<pages, start_page, recommendations, sections, index_rows, sheets,
                   written>>

\* the lengths self.recommendations has when extract_text is called for a page
\* from first on, or the print before the loop
PageStarts(pgs, first) ==
    {0} \cup {Len(ExtractPages(Take(pgs, k), first)) : k \in first..(Len(pgs) - 1)}

\* extractor.extract_recommendations(): the start page, the pages from it on, then
\* _remove_duplicates, the sort and a print.  An exception leaves it at the print
\* before the loop or at extract_text of a page, with the records of the pages
\* before it appended, or at the print after the sort; an interrupt leaves it
\* after any record it appended, or with the list as _remove_duplicates left it.
\* When the sort raises ValueError the list stays as _remove_duplicates left it and
\* except Exception ends the process.
ExtractRecommendations ==
    /\ exit_code = -1
    /\ pc = "extract"
    /\ \E first \in {FindStartPage(pages)} :
       \E appended \in {ExtractPages(pages, first)} :
       \E unique \in {RemoveDuplicates(appended)} :
       \E sorted \in {SortByNum(unique)} :
          /\ start_page' = first
          /\ \/ /\ sorted.ok
                /\ recommendations' = sorted.value
                /\ \/ /\ pc' = "organize"
                      /\ steps' = Append(steps, "extract")
                      /\ UNCHANGED exit_code
                   \/ /\ exit_code' \in RaisedStatus
                      /\ UNCHANGED <<pc, steps>>
             \/ /\ recommendations' = unique
                /\ exit_code' \in (IF sorted.ok THEN {KeyboardInterruptStatus}
                                     ELSE RaisedStatus)
                /\ UNCHANGED <<pc, steps>>
             \/ /\ \E starts \in {PageStarts(pages, first)} :
                   \E n \in 0..Len(appended) :
                      /\ recommendations' = SubSeq(appended, 1, n)
                      /\ exit_code' \in (IF n \in starts THEN RaisedStatus
                                         ELSE {KeyboardInterruptStatus})
                /\ UNCHANGED <<pc, steps>>
    /\ UNCHANGED <<pages, benchmark_title, benchmark_version, sections, index_rows,
                   sheets, written>>

\* sections = extractor.organize_by_section(), then the loop that prints the
\* sections over sorted(sections.keys(), key=int), whose ValueError ends the
\* process
Organize ==
    /\ exit_code = -1
    /\ pc = "organize"
    /\ \E organized \in {OrganizeBySection(recommendations)} :
          /\ sections' = organized
          /\ exit_code' \in (IF SortedKeys(organized).ok THEN {exit_code} ELSE RaisedStatus)
    /\ pc' = "index"
    /\ steps' = Append(steps, "organize")
    /\ UNCHANGED <<pages, benchmark_title, benchmark_version, start_page, recommendations,
                   index_rows, sheets, written>>

\* generate: self.create_index_sheet(sections).  It returns with a row for every
\* section, an exception or an interrupt leaves it with the rows appended so far
\* (the calls that style a row follow its ws.append), and the ValueError of sorted
\* leaves it with none.
CreateIndexSheet ==
    /\ exit_code = -1
    /\ pc = "index"
    /\ \E rows \in {IndexRows(sections)} :
          \/ /\ rows.ok
             /\ \E done \in Prefixes(rows.value) :
                   /\ index_rows' = done
                   /\ \/ /\ done = rows.value
                         /\ pc' = IF sections = <<>> THEN "save" ELSE "sheets"
                         /\ steps' = Append(steps, "index")
                         /\ UNCHANGED exit_code
                      \/ /\ exit_code' \in RaisedStatus
                         /\ UNCHANGED <<pc, steps>>
          \/ /\ ~rows.ok
             /\ exit_code' \in RaisedStatus
             /\ UNCHANGED <<index_rows, pc, steps>>
    /\ UNCHANGED <<pages, benchmark_title, benchmark_version, start_page, recommendations,
                   sections, sheets, written>>

\* self.wb.sheetnames once the index sheet is made
SheetNames(made) == <<LitIndexTitle>> \o [i \in 1..Len(made) |-> made[i].name]

\* the height of a row before _add_recommendation_row set it
HeightNotSet == 0

\* the rows of a sheet when _add_recommendation_row is left after ws.append(data)
\* and before it set the height of the row: the last row has no height yet
LastNotStyled(rows) == [rows EXCEPT ![Len(rows)].height = HeightNotSet]

\* generate: one turn of the loop over sorted(sections.keys(), key=int), which
\* calls create_section_sheet.  The sheet is in the workbook from create_sheet on:
\* an exception or an interrupt leaves it there without its title cell, or with
\* the rows appended so far, the last of them with or without its height.  Only an
\* interrupt leaves it there with all its rows done, since no call follows the
\* last row.  The workbook holds the index sheet and the section sheets made
\* before.
CreateSectionSheet ==
    /\ exit_code = -1
    /\ pc = "sheets"
    /\ \E keys \in {SortedKeys(sections)} :
          \/ /\ keys.ok
             /\ \E sec_num \in {keys.value[Len(sheets) + 1]} :
                \E sheet \in {SectionSheet(SheetNames(sheets), benchmark_title, sec_num,
                                           SectionName(sec_num),
                                           SectionRecs(sections, sec_num))} :
                   \/ /\ sheets' = Append(sheets, [sheet EXCEPT !.title = <<>>,
                                                                 !.rows = <<>>])
                      /\ exit_code' \in RaisedStatus
                      /\ UNCHANGED <<pc, steps>>
                   \/ \E done \in Prefixes(sheet.rows) :
                         \/ /\ sheets' = Append(sheets, [sheet EXCEPT !.rows = done])
                            /\ \/ /\ done = sheet.rows
                                  /\ pc' = IF Len(sheets) + 1 = Len(sections) THEN "save"
                                           ELSE "sheets"
                                  /\ steps' = Append(steps, "sheet")
                                  /\ UNCHANGED exit_code
                               \/ /\ exit_code' \in (IF done = sheet.rows
                                                     THEN {KeyboardInterruptStatus}
                                                     ELSE RaisedStatus)
                                  /\ UNCHANGED <<pc, steps>>
                         \/ /\ done # <<>>
                            /\ sheets' = Append(sheets,
                                                [sheet EXCEPT !.rows = LastNotStyled(done)])
                            /\ exit_code' \in RaisedStatus
                            /\ UNCHANGED <<pc, steps>>
          \/ /\ ~keys.ok
             /\ exit_code' \in RaisedStatus
             /\ UNCHANGED <<sheets, pc, steps>>
    /\ UNCHANGED <<pages, benchmark_title, benchmark_version, start_page, recommendations,
                   sections, index_rows, written>>

\* generate: self.wb.save(output_path)
Save ==
    /\ exit_code = -1
    /\ pc = "save"
    /\ written' = TRUE
    /\ pc' = "saved"
    /\ steps' = Append(steps, "save")
    /\ UNCHANGED <<pages, benchmark_title, benchmark_version, start_page, recommendations,
                   sections, index_rows, sheets, exit_code>>

\* self.wb.save raised (an I/O error): the file may or may not be there, in part;
\* except Exception, sys.exit(1)
SaveFails ==
    /\ exit_code = -1
    /\ pc = "save"
    /\ written' \in BOOLEAN
    /\ exit_code' \in Ends(1)
    /\ UNCHANGED <<pages, pc, benchmark_title, benchmark_version, start_page,
                   recommendations, sections, index_rows, sheets, steps>>

\* main returns after its last print: the process ends with status 0
Finish ==
    /\ exit_code = -1
    /\ pc = "saved"
    /\ exit_code' \in Ends(0)
    /\ pc' = "done"
    /\ UNCHANGED <<pages, benchmark_title, benchmark_version, start_page, recommendations,
                   sections, index_rows, sheets, written, steps>>

Next ==
    \/ ParseArgs
    \/ PrintHelp
    \/ UsageError
    \/ BannerRaises
    \/ Construct
    \/ RaiseFileNotFound
    \/ RaiseException
    \/ KeyboardInterrupt
    \/ ExtractMetadata
    \/ ExtractRecommendations
    \/ Organize
    \/ CreateIndexSheet
    \/ CreateSectionSheet
    \/ Save
    \/ SaveFails
    \/ Finish
----------------------------------------------------------------------------
(* The documents *)

\* the pieces of text the documents of Spec are made of
HdrA ==
    <<"\n", "1", ".", "1", " ", "D", "i", "s", "a", "b", "l", "e", " ", "u", "n", "u", "s",
      "e", "d", " ", "f", "i", "l", "e", "s", "y", "s", "t", "e", "m", "s", " ", "(", "A", "u",
      "t", "o", "m", "a", "t", "e", "d", ")">>

HdrB ==
    <<"\n", "2", ".", "1", " ", "E", "n", "s", "u", "r", "e", " ", "b", " ", "(", "M", "a",
      "n", "u", "a", "l", ")">>

BodyScenario ==
    <<"\n", "D", "e", "s", "c", "r", "i", "p", "t", "i", "o", "n", ":", " ", "D", "o", " ",
      "n", "o", "t", " ", "m", "o", "u", "n", "t", " ", "c", "r", "a", "m", "f", "s", ".",
      "\n", "R", "a", "t", "i", "o", "n", "a", "l", "e", ":", " ", "R", "e", "d", "u", "c",
      "e", "s", " ", "a", "t", "t", "a", "c", "k", " ", "s", "u", "r", "f", "a", "c", "e", ".",
      "\n", "A", "u", "d", "i", "t", ":", " ", "R", "u", "n", " ", "m", "o", "d", "p", "r",
      "o", "b", "e", " ", "-", "n", " ", "-", "v", " ", "c", "r", "a", "m", "f", "s", ".",
      "\n", "R", "e", "m", "e", "d", "i", "a", "t", "i", "o", "n", ":", " ", "E", "d", "i",
      "t", " ", "/", "e", "t", "c", "/", "m", "o", "d", "p", "r", "o", "b", "e", ".", "d", "/",
      "c", "r", "a", "m", "f", "s", ".", "c", "o", "n", "f", ".">>

BodyEmptyAudit ==
    <<"\n", "L", "e", "v", "e", "l", " ", "2", "\n", "D", "e", "s", "c", "r", "i", "p", "t",
      "i", "o", "n", ":", " ", "d", "\n", "A", "u", "d", "i", "t", ":", "U+2003", "\n", "R",
      "e", "m", "e", "d", "i", "a", "t", "i", "o", "n", ":", " ", "f", "i", "x">>

TailFields ==
    <<"\n", "D", "e", "f", "a", "u", "l", "t", " ", "V", "a", "l", "u", "e", ":", " ", "x",
      "\n", "R", "e", "f", "e", "r", "e", "n", "c", "e", "s", ":", " ", "r", "\n", "C", "I",
      "S", " ", "C", "o", "n", "t", "r", "o", "l", "s", ":", " ", "c">>

\* a page of front matter
CoverPage ==
    <<"C", "I", "S", " ", "U", "b", "u", "n", "t", "u", " ", "L", "i", "n", "u", "x", " ", "B",
      "e", "n", "c", "h", "m", "a", "r", "k", "\n", "v", "1", ".", "0", ".", "0">>

\* the same with characters that match without being ASCII: a long s, an ideographic space, a vertical tab, the Kelvin sign, a fullwidth digit
CoverPageFolded ==
    <<"c", "i", "U+017F", "U+3000", "U", "b", "u", "n", "t", "u", " ", "L", "i", "n", "u", "x",
      "", "b", "e", "n", "c", "h", "m", "a", "r", "U+212A", "\n", "v", "1", ".", "0", ".",
      "U+FF11">>

\* a line of a table of contents, which the start page pattern finds
Overview ==
    <<"\n", "1", ".", "1", " ", "O", "v", "e", "r", "v", "i", "e", "w">>

ShortTitle ==
    <<" ", "T", " ", "x", " ", "(", "M", "a", "n", "u", "a", "l", ")">>

ShortBody ==
    <<"\n", "A", "u", "d", "i", "t", ":", " ", "a", "\n", "R", "e", "m", "e", "d", "i", "a",
      "t", "i", "o", "n", ":", " ", "r">>

\* the pages of SpecStart that hold the first recommendation
PageFirstLine ==
    <<"1", ".", "1", " ", "D", "i", "s", "a", "b", "l", "e", " ", "u", "n", "u", "s", "e", "d",
      " ", "f", "i", "l", "e", "s", "y", "s", "t", "e", "m", "s", " ", "(", "A", "u", "t", "o",
      "m", "a", "t", "e", "d", ")", "\n", "D", "e", "s", "c", "r", "i", "p", "t", "i", "o",
      "n", ":", " ", "D", "o", " ", "n", "o", "t", " ", "m", "o", "u", "n", "t", " ", "c", "r",
      "a", "m", "f", "s", ".", "\n", "R", "a", "t", "i", "o", "n", "a", "l", "e", ":", " ",
      "R", "e", "d", "u", "c", "e", "s", " ", "a", "t", "t", "a", "c", "k", " ", "s", "u", "r",
      "f", "a", "c", "e", ".", "\n", "A", "u", "d", "i", "t", ":", " ", "R", "u", "n", " ",
      "m", "o", "d", "p", "r", "o", "b", "e", " ", "-", "n", " ", "-", "v", " ", "c", "r", "a",
      "m", "f", "s", ".", "\n", "R", "e", "m", "e", "d", "i", "a", "t", "i", "o", "n", ":",
      " ", "E", "d", "i", "t", " ", "/", "e", "t", "c", "/", "m", "o", "d", "p", "r", "o", "b",
      "e", ".", "d", "/", "c", "r", "a", "m", "f", "s", ".", "c", "o", "n", "f", ".">>

PageSecondLine ==
    <<"R", "e", "c", "o", "m", "m", "e", "n", "d", "a", "t", "i", "o", "n", "s", "\n", "1",
      ".", "1", " ", "D", "i", "s", "a", "b", "l", "e", " ", "u", "n", "u", "s", "e", "d", " ",
      "f", "i", "l", "e", "s", "y", "s", "t", "e", "m", "s", " ", "(", "A", "u", "t", "o", "m",
      "a", "t", "e", "d", ")", "\n", "A", "u", "d", "i", "t", ":", " ", "a", "\n", "R", "e",
      "m", "e", "d", "i", "a", "t", "i", "o", "n", ":", " ", "r", "\n", "R", "e", "f", "e",
      "r", "e", "n", "c", "e", "s", ":", " ", "n">>

PageSubsection ==
    <<"R", "e", "c", "o", "m", "m", "e", "n", "d", "a", "t", "i", "o", "n", "s", "\n", "1",
      ".", "1", ".", "1", " ", "E", "n", "s", "u", "r", "e", " ", "c", " ", "(", "S", "c", "o",
      "r", "e", "d", ")", "\n", "A", "u", "d", "i", "t", ":", " ", "a", "\n", "D", "e", "f",
      "a", "u", "l", "t", " ", "V", "a", "l", "u", "e", ":", " ", "v">>

PageEarlier ==
    <<"P", "r", "e", "f", "a", "c", "e", "\n", "2", ".", "1", " ", "E", "n", "s", "u", "r",
      "e", " ", "b", " ", "(", "M", "a", "n", "u", "a", "l", ")", "\n", "A", "u", "d", "i",
      "t", ":", " ", "a", "\n", "R", "e", "m", "e", "d", "i", "a", "t", "i", "o", "n", ":",
      " ", "r">>

\* the pages of a text in which '\f' parts the pages
RECURSIVE SplitPages(_, _)
SplitPages(s, i) ==
    LET D == {j \in i..Len(s) : s[j] = "\f"}
    IN  IF D = {} THEN <<Slice(s, i, Len(s))>>
        ELSE <<Slice(s, i, Min(D) - 1)>> \o SplitPages(s, Min(D) + 1)

\* the concatenation of a sequence of texts
RECURSIVE Concat(_)
Concat(ss) == IF ss = <<>> THEN <<>> ELSE ss[1] \o Concat(Tail(ss))

\* the sequences over S of length at most n
SeqsUpTo(S, n) == UNION {[1..k -> S] : k \in 0..n}

\* n copies of x
Copies(x, n) == [i \in 1..n |-> x]

\* Spec: a document is up to MaxItems pieces of text, a page break among them
MaxItems == 4

PageBreak == <<"\f">>

Items == {PageBreak, HdrA, HdrB, BodyScenario, BodyEmptyAudit, TailFields}

Init == \E doc \in SeqsUpTo(Items, MaxItems) : Start(SplitPages(Concat(doc), 1))

Spec == Init /\ [][Next]_vars

\* SpecSort: one page, a line of the table of contents and then up to MaxRecs
\* recommendations, each with a number of Nums, a short title and a short body; or
\* two recommendations, one of them with a number that has a component of as many
\* digits as int() converts, or one digit more; or up to MaxRecs recommendations of
\* sections whose numbers have the same first 31 digits
MaxRecs == 3

\* "1.01" has a leading zero, "1.U+0663" an Arabic-Indic digit three, and the last
\* one an integer beyond 32 bits
Nums ==
    {<<"1", ".", "1">>, <<"1", ".", "0", "1">>, <<"1", ".", "1", "0">>, <<"1", ".", "2">>,
     <<"2", ".", "1">>, <<"1", "0", ".", "1">>, <<"1", ".", "U+0663">>,
     <<"1", "2", "3", "4", "5", "6", "7", "8", "9", "0", "1", ".", "1">>}

\* a number with a component of n digits, the first one or the second
LongNum(n, first) ==
    IF first THEN Copies("7", n) \o <<".", "1">> ELSE <<"1", ".">> \o Copies("7", n)

\* the number of a first recommendation of a section whose number is 31 digits and
\* then more
SameStartNum(more) == Copies("1", SheetNameMax) \o more \o <<".", "1">>

SameStartEnds == {<<>>, <<"1">>, <<"2">>}

ShortRec(num) == <<"\n">> \o num \o ShortTitle \o ShortBody

InitSort ==
    \/ \E ns \in SeqsUpTo(Nums, MaxRecs) :
          Start(<<Overview \o Concat([i \in 1..Len(ns) |-> ShortRec(ns[i])])>>)
    \/ \E n \in Nums : \E over \in {0, 1} : \E first \in BOOLEAN :
          Start(<<Overview \o ShortRec(LongNum(MaxStrDigits + over, first))
                    \o ShortRec(n)>>)
    \/ \E es \in SeqsUpTo(SameStartEnds, MaxRecs) :
          Start(<<Overview \o Concat([i \in 1..Len(es) |-> ShortRec(SameStartNum(es[i]))])>>)

SpecSort == InitSort /\ [][Next]_vars

\* SpecTrunc: one page with one recommendation that has all seven fields, one of
\* them with a text whose length is from one under its cap to MaxOver over it
MaxOver == 2

FieldLabels ==
    <<LabelDescription, LabelRationale, LabelImpact, LabelAudit, LabelRemediation,
      LabelDefaultValue, LabelReferences>>

FieldCaps ==
    <<MaxDescription, MaxRationale, MaxImpact, MaxAudit, MaxRemediation, MaxDefaultValue,
      MaxReferences>>

FieldLine(f, n) == Nl(FieldLabels[f]) \o <<" ">> \o Copies("x", n)

LongPage(f, n) ==
    <<"\n", "1", ".", "1">> \o ShortTitle
      \o Concat([g \in 1..Len(FieldLabels) |-> FieldLine(g, IF g = f THEN n ELSE 1)])
      \o Nl(LabelCISControls) \o <<" ", "c">>

InitTrunc ==
    \E f \in 1..Len(FieldLabels) : \E over \in (0 - 1)..MaxOver :
        Start(<<LongPage(f, FieldCaps[f] + over)>>)

SpecTrunc == InitTrunc /\ [][Next]_vars

\* SpecStart: up to MaxFront pages of front matter, before them a page with a
\* recommendation of section 2 or nothing, after them a page with recommendation 1.1
MaxFront == 31

InitStart ==
    \E pre \in {<<>>, <<PageEarlier>>} : \E f \in 0..MaxFront :
    \E cover \in {CoverPage, CoverPageFolded} :
    \E p \in {PageFirstLine, PageSecondLine, PageSubsection} :
        Start(pre \o Copies(cover, f) \o <<p>>)

SpecStart == InitStart /\ [][Next]_vars

----------------------------------------------------------------------------
(* The claims *)

\* the record of the end-to-end scenario
ScenarioNum ==
    <<"1", ".", "1">>

ScenarioTitle ==
    <<"D", "i", "s", "a", "b", "l", "e", " ", "u", "n", "u", "s", "e", "d", " ", "f", "i", "l",
      "e", "s", "y", "s", "t", "e", "m", "s">>

ScenarioDescription ==
    <<"D", "o", " ", "n", "o", "t", " ", "m", "o", "u", "n", "t", " ", "c", "r", "a", "m", "f",
      "s", ".">>

ScenarioRationale ==
    <<"R", "e", "d", "u", "c", "e", "s", " ", "a", "t", "t", "a", "c", "k", " ", "s", "u", "r",
      "f", "a", "c", "e", ".">>

ScenarioAudit ==
    <<"R", "u", "n", " ", "m", "o", "d", "p", "r", "o", "b", "e", " ", "-", "n", " ", "-", "v",
      " ", "c", "r", "a", "m", "f", "s", ".">>

ScenarioRemediation ==
    <<"E", "d", "i", "t", " ", "/", "e", "t", "c", "/", "m", "o", "d", "p", "r", "o", "b", "e",
      ".", "d", "/", "c", "r", "a", "m", "f", "s", ".", "c", "o", "n", "f", ".">>

\* extract_recommendations has just returned: self.recommendations is the final
\* list, which no later step changes
Extracted == pc = "organize" /\ exit_code = -1

\* organize_by_section has returned
Organized == pc \in {"index", "sheets", "save", "saved", "done"}

\* the header matches of the pages extract_recommendations reads, in the order it
\* meets them: [page, m, text]
RECURSIVE ScannedFrom(_, _)
ScannedFrom(pgs, p) ==
    IF p >= Len(pgs) THEN <<>>
    ELSE LET ms == HeaderMatches(pgs[p + 1])
         IN  [i \in 1..Len(ms) |-> [page |-> p, m |-> ms[i], text |-> pgs[p + 1]]]
               \o ScannedFrom(pgs, p + 1)

Scanned == ScannedFrom(pages, FindStartPage(pages))

\* the page and position of a scanned match, as a record names them in src
Place(x) == <<x.page, x.m.start>>

\* the match among sc a retained record names in src
Origin(sc, rec) == sc[CHOOSE i \in 1..Len(sc) : Place(sc[i]) = rec.src]

HasOrigin(sc, rec) == \E i \in 1..Len(sc) : Place(sc[i]) = rec.src

\* whether the literal occurs in the text
Contains(t, lit) == \E i \in 1..Len(t) : MatchAt(t, i, lit)

\* the record a scanned match gives
RecordOf(x) == MatchRecord(x.text, x.page, x.m)

\* the text of the page between a match's header and the next header of the page,
\* no longer than the content window
OwnText(x) ==
    LET later == {s \in (x.m.end + 1)..Len(x.text) : HeaderAt(x.text, s).ok}
        stop  == IF later = {} THEN Len(x.text) ELSE Min(later) - 1
    IN  Slice(x.text, x.m.end + 1,
              IF stop < x.m.end + WindowSize THEN stop ELSE x.m.end + WindowSize)

AllLabels ==
    {LabelDescription, LabelRationale, LabelImpact, LabelAudit, LabelRemediation,
     LabelDefaultValue, LabelReferences}

\* the match's own "Audit:" label is followed, after whitespace only, by a label
OwnAuditEmpty(x) ==
    LET c == OwnText(x)
        A == {i \in 1..Len(c) : MatchAt(c, i, LabelAudit)}
    IN  /\ A # {}
        /\ \E l \in AllLabels : MatchAt(c, SkipSpace(c, Min(A) + Len(LabelAudit)), l)

\* C1: the document of the end-to-end scenario (the header line "1.1 Disable unused
\* filesystems (Automated)" and the lines Description, Rationale, Audit, Remediation,
\* Remediation last) gives exactly one record, with remediation "Edit
\* /etc/modprobe.d/cramfs.conf." and the other fields as listed, grouped under
\* section "1".
C1_EndToEndScenario ==
    (Organized /\ pages = <<HdrA \o BodyScenario>>) =>
        /\ Len(recommendations) = 1
        /\ recommendations[1].num = ScenarioNum
        /\ recommendations[1].title = ScenarioTitle
        /\ recommendations[1].status = LitAutomated
        /\ recommendations[1].description = ScenarioDescription
        /\ recommendations[1].rationale = ScenarioRationale
        /\ recommendations[1].audit = ScenarioAudit
        /\ recommendations[1].remediation = ScenarioRemediation
        /\ recommendations[1].default_value = <<>>
        /\ recommendations[1].references = <<>>
        /\ Len(sections) = 1
        /\ sections[1].key = <<"1">>
        /\ sections[1].recs = recommendations

\* C2: once extract_recommendations has returned, every record of the list has a
\* non-empty audit field and comes from a header match whose content window holds
\* the label "Audit:".
C2_AcceptanceFilter ==
    Extracted =>
        LET sc == Scanned
        IN  \A i \in 1..Len(recommendations) :
               /\ recommendations[i].audit # <<>>
               /\ HasOrigin(sc, recommendations[i])
               /\ LET x == Origin(sc, recommendations[i])
                  IN  Contains(Window(x.text, x.m), LabelAudit)

\* a scanned header match has no "Audit:" in its window and was dropped without an
\* error, while the list holds a record
C2_Witness ==
    /\ Extracted
    /\ recommendations # <<>>
    /\ LET sc == Scanned
       IN  \E i \in 1..Len(sc) :
              /\ ~Contains(Window(sc[i].text, sc[i].m), LabelAudit)
              /\ \A j \in 1..Len(recommendations) : recommendations[j].src # Place(sc[i])

\* C3: a header match whose own "Audit:" label is followed, after whitespace only,
\* by the next label is not in the final list, whatever labeled segments follow.
C3_EmptyAuditExcluded ==
    Extracted =>
        LET sc == Scanned
        IN  \A i \in 1..Len(recommendations) :
               HasOrigin(sc, recommendations[i])
                  => ~OwnAuditEmpty(Origin(sc, recommendations[i]))

\* C4 as claimed: every record of the final list comes from the first scanned header
\* match that carries its num, and no two records share a num.
C4_FirstMatchWins ==
    Extracted =>
        /\ LET sc == Scanned
           IN  \A i \in 1..Len(recommendations) :
                  LET F == {k \in 1..Len(sc) : sc[k].m.num = recommendations[i].num}
                  IN  /\ F # {}
                      /\ recommendations[i].src = Place(sc[Min(F)])
        /\ \A i, j \in 1..Len(recommendations) :
              i # j => recommendations[i].num # recommendations[j].num

\* C4 as amended: every record of the final list comes from the first scanned header
\* match that carries its num and passes the acceptance filter (a match the filter
\* dropped does not stand for its num), every num of such a match is in the list,
\* and no two records share a num.
C4_FirstAcceptedWins ==
    Extracted =>
        /\ LET sc == Scanned
               rs == [k \in 1..Len(sc) |-> RecordOf(sc[k])]
           IN  /\ \A i \in 1..Len(recommendations) :
                     LET F == {k \in 1..Len(sc) :
                                 /\ sc[k].m.num = recommendations[i].num
                                 /\ rs[k].audit # <<>>}
                     IN  /\ F # {}
                         /\ recommendations[i] = rs[Min(F)]
               /\ \A k \in 1..Len(sc) :
                     rs[k].audit # <<>> =>
                        \E i \in 1..Len(recommendations) :
                           recommendations[i].num = sc[k].m.num
        /\ \A i, j \in 1..Len(recommendations) :
              i # j => recommendations[i].num # recommendations[j].num

\* two scanned matches carry the same num, both with audit text and with different
\* text around them, and the list holds the record of the first
C4_Witness ==
    /\ Extracted
    /\ LET sc == Scanned
       IN  \E k, l \in 1..Len(sc) :
              /\ k < l
              /\ sc[k].m.num = sc[l].m.num
              /\ RecordOf(sc[k]).audit # <<>>
              /\ RecordOf(sc[l]).audit # <<>>
              /\ Window(sc[k].text, sc[k].m) # Window(sc[l].text, sc[l].m)
              /\ \E i \in 1..Len(recommendations) : recommendations[i].src = Place(sc[k])

\* C5: in the final list, of two distinct records A precedes B exactly when the
\* integers of A's num are lexicographically less than those of B's.
C5_SortIff ==
    Extracted =>
        \A i, j \in 1..Len(recommendations) :
            i # j => ((i < j) <=> KeyLess(NumKey(recommendations[i].num).value,
                                          NumKey(recommendations[j].num).value))

\* "<num>. <name>" of row i of the index sheet, not cut
FullSheetName(row) == row.section \o <<".", " ">> \o row.name

\* C6: the i-th section sheet holds the records of the section of the i-th index
\* row and is created under that row's Tab Name, which is "<num>. <name>" cut to at
\* most 31 characters, exactly 31 when it was longer; the index rows are in
\* ascending numeric order of section key, one row per section.
C6_SheetNames ==
    /\ Len(sheets) <= Len(index_rows)
    /\ pc \in {"save", "saved", "done"} => Len(sheets) = Len(index_rows)
    /\ pc \in {"sheets", "save", "saved", "done"} => Len(index_rows) = Len(sections)
    /\ \A i \in 1..Len(sheets) :
          /\ sheets[i].name = index_rows[i].tab
          /\ \A r \in 1..Len(sheets[i].rows) :
                MainSection(sheets[i].rows[r].data[1]) = index_rows[i].section
    /\ \A i \in 1..Len(index_rows) :
          LET full == FullSheetName(index_rows[i])
              tab  == index_rows[i].tab
          IN  /\ Len(tab) <= 31
              /\ tab = SubSeq(full, 1, Len(tab))
              /\ Len(full) > 31 => Len(tab) = 31
              /\ Len(full) <= 31 => tab = full
    /\ \A i, j \in 1..Len(index_rows) :
          i < j => /\ ~IntLess(ParseInt(index_rows[j].section).value,
                            ParseInt(index_rows[i].section).value)
                   /\ index_rows[i].section # index_rows[j].section

\* the steps of a complete run that made n section sheets
FullRun(n) ==
    <<"construct", "metadata", "extract", "organize", "index">> \o Copies("sheet", n)
      \o <<"save">>

\* C7 as it is stated, for every run of main: the save is the last step, after
\* metadata detection, extraction, grouping and sheet construction; the exit code
\* is 0 only after all of them and the save; a failure before the save gives exit
\* code 1 with no output file written; no step is run twice.
C7_ExitCodes ==
    /\ exit_code \in {-1, 0, 1}
    /\ exit_code = 0 => (written /\ steps = FullRun(Len(sections)) /\ pc = "done")
    /\ (written /\ pc # "save") => steps = FullRun(Len(sections))
    /\ (exit_code = 1 /\ pc \notin {"save", "saved"}) => ~written
    /\ pc \in {"args", "construct", "metadata", "extract", "organize", "index", "sheets"}
         => ~written
    /\ \A i, j \in 1..Len(steps) : (i # j /\ steps[i] = steps[j]) => steps[i] = "sheet"
    /\ Len(steps) <= 6 + Len(sections)

\* C7, amended: the save is the last step, after metadata detection, extraction,
\* grouping and sheet construction; a run that got past the parsing of its
\* arguments has exit code 0 only after all of them and the save, and a run that
\* returned from main has run all of them and the save and has exit code 0, or
\* that of a failed flush at exit; a run that ends while its arguments are parsed
\* has run no step and written nothing, and only such a run has the exit code of a
\* usage error; the other exit codes of a run that ended are 1, the status of a
\* failed flush at exit and the status of an interrupt, and with any of them no
\* output file is written unless the run had reached the save; no step is run
\* twice.
C7_ExitCodesPastParsing ==
    /\ exit_code \in {-1, 0, 1, UsageStatus, FlushFailedStatus, KeyboardInterruptStatus}
    /\ pc = "args" => (steps = <<>> /\ ~written)
    /\ exit_code = UsageStatus => pc = "args"
    /\ (exit_code = 0 /\ pc # "args")
         => (written /\ steps = FullRun(Len(sections)) /\ pc = "done")
    /\ pc = "done"
         => (written /\ steps = FullRun(Len(sections))
                /\ exit_code \in {0, FlushFailedStatus})
    /\ (written /\ pc # "save") => steps = FullRun(Len(sections))
    /\ (exit_code \in {1, FlushFailedStatus, KeyboardInterruptStatus}
          /\ pc \notin {"save", "saved", "done"})
         => ~written
    /\ pc \in {"args", "construct", "metadata", "extract", "organize", "index", "sheets"}
         => ~written
    /\ \A i, j \in 1..Len(steps) : (i # j /\ steps[i] = steps[j]) => steps[i] = "sheet"
    /\ Len(steps) <= 6 + Len(sections)

\* a run that failed during sheet construction, after it extracted records: exit
\* code 1, no output file
C7_Witness ==
    /\ exit_code = 1
    /\ pc = "sheets"
    /\ recommendations # <<>>
    /\ sheets # <<>>
    /\ ~written

\* the fields with their label, terminators and cap, as the record names them
CappedFields ==
    {<<"description", MaxDescription>>, <<"rationale", MaxRationale>>,
     <<"impact", MaxImpact>>, <<"audit", MaxAudit>>, <<"remediation", MaxRemediation>>,
     <<"default_value", MaxDefaultValue>>, <<"references", MaxReferences>>}

\* the trimmed text between a label and the first terminator after it in c
Segment(c, field) ==
    CASE field = "description" ->
           Strip(FieldGroup(c, LabelDescription,
                            <<Nl(LabelRationale), Nl(LabelImpact), Nl(LabelAudit)>>))
      [] field = "rationale" ->
           Strip(FieldGroup(c, LabelRationale, <<Nl(LabelImpact), Nl(LabelAudit)>>))
      [] field = "impact" ->
           Strip(FieldGroup(c, LabelImpact, <<Nl(LabelAudit), Nl(LabelRemediation)>>))
      [] field = "audit" ->
           Strip(FieldGroup(c, LabelAudit, <<Nl(LabelRemediation), Nl(LabelDefaultValue)>>))
      [] field = "remediation" ->
           Strip(FieldGroup(c, LabelRemediation,
                            <<Nl(LabelDefaultValue), Nl(LabelImpact), Nl(LabelReferences)>>))
      [] field = "default_value" ->
           Strip(FieldGroup(c, LabelDefaultValue, <<Nl(LabelReferences), Nl(LabelCISControls)>>))
      [] field = "references" ->
           Strip(FieldGroup(c, LabelReferences,
                            <<Nl(LabelCISControls), Nl(LabelAdditionalInformation)>>))

\* rec keeps each capped field within its cap, as a prefix of the segment of c
WithinCaps(rec, c) ==
    \A fc \in CappedFields :
        LET value == rec[fc[1]]
            seg   == Segment(c, fc[1])
        IN  /\ Len(value) <= fc[2]
            /\ Len(value) <= Len(seg)
            /\ value = SubSeq(seg, 1, Len(value))
            /\ Len(seg) <= fc[2] => value = seg

\* C8: in every record _extract_recommendation_details returns for a scanned match,
\* and in every record of the list, description has at most 1500 characters,
\* rationale 1000, impact 1000, audit 2500, remediation 1500, default_value 500 and
\* references 800, each the prefix of the trimmed captured segment.
C8_Truncation ==
    Extracted =>
        LET sc == Scanned
        IN  /\ \A k \in 1..Len(sc) :
                  WithinCaps(RecordOf(sc[k]), Window(sc[k].text, sc[k].m))
            /\ \A i \in 1..Len(recommendations) :
                  /\ HasOrigin(sc, recommendations[i])
                  /\ LET x == Origin(sc, recommendations[i])
                     IN  WithinCaps(recommendations[i], Window(x.text, x.m))

\* the list holds a record one of whose fields was cut: it is as long as its cap
\* and the segment it was taken from is longer
C8_Witness ==
    /\ Extracted
    /\ LET sc == Scanned
       IN  \E i \in 1..Len(recommendations) : \E fc \in CappedFields :
              /\ Len(recommendations[i][fc[1]]) = fc[2]
              /\ LET x == Origin(sc, recommendations[i])
                 IN  Len(Segment(Window(x.text, x.m), fc[1])) > fc[2]

\* a line of t begins at position i with "1.1" or "1.1.<digits>", then whitespace and
\* a capital letter
FirstRecommendationLineAt(t, i) ==
    /\ i = 1 \/ t[i - 1] = "\n"
    /\ MatchAt(t, i, <<"1", ".", "1">>)
    /\ LET j == i + 3
           n == IF j + 1 <= Len(t) /\ t[j] = "." /\ IsDigit(t[j + 1])
                THEN SkipDigits(t, j + 1) ELSE j
           a == SkipSpace(t, n)
       IN  a > n /\ a <= Len(t) /\ IsUpper(t[a])

\* the start page as claimed: the first of the first 30 pages with such a line, the
\* first line of the page included; 15 when there is none
ClaimedStartPage(pgs) ==
    LET n == IF Len(pgs) < 30 THEN Len(pgs) ELSE 30
        S == {p \in 0..(n - 1) :
                \E i \in 1..Len(pgs[p + 1]) : FirstRecommendationLineAt(pgs[p + 1], i)}
    IN  IF S = {} THEN 15 ELSE Min(S)

\* C9: find_recommendations_start_page returns the first of the first 30 pages with
\* a line that begins with "1.1" or "1.1.<digit>" and a capital letter, that line
\* being the first of the page or not, and 15 when there is none; no record comes
\* from a page before it.
C9_StartPage ==
    Extracted =>
        /\ start_page = ClaimedStartPage(pages)
        /\ \A i \in 1..Len(recommendations) : recommendations[i].src[1] >= start_page

\* C10: every field of a retained record is taken from the text of its page between
\* its header and the next header of the page: the record is the one that text
\* alone gives, and that text alone has audit text.
C10_RecordIsolation ==
    Extracted =>
        LET sc == Scanned
        IN  \A i \in 1..Len(recommendations) :
               HasOrigin(sc, recommendations[i]) =>
                  LET x == Origin(sc, recommendations[i])
                      own == [src |-> recommendations[i].src]
                               @@ Details(x.m.num, x.m.title, x.m.status, OwnText(x))
                  IN  recommendations[i] = own

=============================================================================
